---- MODULE Spec2Model ----
(***************************************************************************)
(* Till sessions (MovimentoCaixa), checkout (finalizar_venda) and the      *)
(* oversight dashboard of loja_caixa, over a shared SQLite store.          *)
(*                                                                         *)
(* Every request runs in its own SQLAlchemy session on its own server      *)
(* thread.  The SELECTs of a handler read the committed store; the writes  *)
(* of a handler are flushed and committed together by db.session.commit(). *)
(* A handler that writes is therefore two steps, its reads and its commit, *)
(* and the steps of different requests interleave.                         *)
(*                                                                         *)
(* A handler that only reads is one step.                                  *)
(*                                                                         *)
(* Money is in centavos.  Time is in clock ticks of one second.  The       *)
(* column defaults (data_abertura, data_venda) are taken when the INSERT   *)
(* is executed, just before its commit, and every other reading where the  *)
(* handler asks for it; readings within one tick return the same value.    *)
(* datetime.utcnow() is the clock, datetime.now() is the clock shifted by  *)
(* the machine's UTC offset.                                               *)
(***************************************************************************)
EXTENDS Integers, Sequences, FiniteSets, Bags, TLC

VARIABLES
    clock,       \* the wall clock, in ticks since start (UTC)
    tz,          \* UTC offset of the machine, in ticks
    usuarios,    \* table usuarios:        id -> row
    produtos,    \* table produtos:        id -> row
    movimentos,  \* table movimento_caixa: sequence of rows, id = index
    vendas,      \* table vendas (with its itens_venda): sequence of rows
    abrindo,     \* abrir_caixa POST requests between their reads and commit
    fechando,    \* fechar_caixa POST requests between their reads and commit
    vendendo,    \* finalizar_venda requests between their reads and commit
    sessao_da_venda, \* history: per venda row, the open movimento of its
                     \* operator when the row was committed (0: none)
    last         \* the answer of the handler that just returned, until it
                 \* is delivered

vars == <<clock, tz, usuarios, produtos, movimentos, vendas,
          abrindo, fechando, vendendo, sessao_da_venda, last>>

(***************************************************************************)
(* Bounds of the model                                                     *)
(***************************************************************************)
MaxThreads == 2
MaxTime == 1
MaxMovimentos == 2
MaxVendas == 2
MaxItens == 2
TzShift == 1
EstoqueInicial == 1
EstoqueVenda == 2
\* the reports: today's date as a day number, a day of UltimoSegundo + 1
\* seconds, a second of MaxMicro + 1 microseconds
Hoje == 7
UltimoSegundo == 1
MaxMicro == 1

(***************************************************************************)
(* Values                                                                  *)
(***************************************************************************)
\* SQL NULL in a nullable column
Null == -999

PrecoArroz == 650

UsuarioIds == {1, 2}
ProdutoIds == {1}

\* request inputs
SaldosIniciais == {10000}
SaldosFinais == {10000, 10650}
FormasPagamento == {"dinheiro", "cartao", "pix"}
ValoresPagos == {0, 1000}
Quantidades == {1, 2}
ItemIds == {1, 2}
\* what a client other than the till page can put in the JSON body
QuantidadesJson == {0 - 1, 0, 1, 2}
FormasJson == {"dinheiro", "cartao", "cheque"}
\* the product form of the admin
PrecosForm == {PrecoArroz, 700}
EstoquesForm == {EstoqueInicial}
\* the machine runs west of UTC (Brazil), at UTC, or east of it
TzOffsets == {0 - TzShift, 0, TzShift}

utcnow == clock
now == clock + tz
\* int(datetime.now().timestamp()): epoch seconds, whatever the UTC offset
timestamp == clock

RECURSIVE SumSeq(_)
SumSeq(s) == IF s = <<>> THEN 0 ELSE Head(s) + SumSeq(Tail(s))

Min(S) == CHOOSE x \in S : \A y \in S : x <= y

InFlight == BagCardinality(abrindo) + BagCardinality(fechando)
            + BagCardinality(vendendo)

NoStatus == <<>>

Answer(op, user, outcome) ==
    [op |-> op, user |-> user, outcome |-> outcome, total |-> 0,
     movimento |-> 0, status_caixas |-> NoStatus]

NoAnswer == Answer("none", 0, "none")

\* a server thread is free, and no answer is waiting to be delivered
Ready == last = NoAnswer /\ InFlight < MaxThreads

(***************************************************************************)
(* init_db                                                                 *)
(***************************************************************************)
Init ==
    /\ clock = 0
    /\ tz \in TzOffsets
    /\ usuarios = (1 :> [perfil |-> "admin", ativo |-> TRUE] @@
                   2 :> [perfil |-> "caixa", ativo |-> TRUE])
    /\ produtos = [p \in ProdutoIds |->
                     [preco_venda |-> PrecoArroz,
                      estoque_atual |-> EstoqueInicial,
                      ativo |-> TRUE]]
    /\ movimentos = <<>>
    /\ vendas = <<>>
    /\ abrindo = EmptyBag
    /\ fechando = EmptyBag
    /\ vendendo = EmptyBag
    /\ sessao_da_venda = <<>>
    /\ last = NoAnswer

(***************************************************************************)
(* get_caixa_aberto                                                        *)
(***************************************************************************)
CaixasAbertos(u) ==
    {i \in 1..Len(movimentos) :
        movimentos[i].usuario_id = u /\ movimentos[i].status = "aberto"}

\* the check for an open session always finds none
MutNuncaAberto(u) == 0

\* the first session of the operator, whatever its status
MutQualquerCaixa(u) ==
    IF \E i \in 1..Len(movimentos) : movimentos[i].usuario_id = u
    THEN Min({i \in 1..Len(movimentos) : movimentos[i].usuario_id = u})
    ELSE 0

\* .first(): the open row of the user with the lowest id, 0 when there is none
get_caixa_aberto(u) ==
    IF CaixasAbertos(u) = {} THEN 0 ELSE Min(CaixasAbertos(u))

(***************************************************************************)
(* abrir_caixa (POST)                                                      *)
(***************************************************************************)
\* MovimentoCaixa(saldo_inicial, usuario_id, status='aberto'); data_abertura
\* takes the column default when the row is inserted
NovoCaixa(u, saldo_inicial) ==
    [data_abertura |-> utcnow, data_fechamento |-> Null,
     saldo_inicial |-> saldo_inicial, saldo_final |-> Null,
     usuario_id |-> u, status |-> "aberto"]

\* the reads of the handler
abrir_caixa(u) ==
    /\ Ready
    /\ IF get_caixa_aberto(u) # 0
       THEN /\ last' = Answer("abrir_caixa", u, "conflict")
            /\ UNCHANGED abrindo
       ELSE /\ Len(movimentos) + BagCardinality(abrindo) < MaxMovimentos
            /\ \E saldo_inicial \in SaldosIniciais :
                  abrindo' = abrindo (+) SetToBag({[usuario_id |-> u,
                                          saldo_inicial |-> saldo_inicial]})
            /\ UNCHANGED last
    /\ UNCHANGED <<clock, tz, usuarios, produtos, movimentos, vendas,
                   fechando, vendendo, sessao_da_venda>>

\* db.session.add(novo_caixa); db.session.commit()
abrir_caixa_commit(r) ==
    /\ last = NoAnswer
    /\ BagIn(r, abrindo)
    /\ abrindo' = abrindo (-) SetToBag({r})
    /\ movimentos' = Append(movimentos, NovoCaixa(r.usuario_id, r.saldo_inicial))
    /\ last' = [Answer("abrir_caixa", r.usuario_id, "success")
                  EXCEPT !.movimento = Len(movimentos) + 1]
    /\ UNCHANGED <<clock, tz, usuarios, produtos, vendas, fechando, vendendo,
                   sessao_da_venda>>

(***************************************************************************)
(* fechar_caixa (POST)                                                     *)
(***************************************************************************)
\* Venda.query.filter(data_venda >= de, data_venda <= ate, usuario_id == u,
\*                    status == 'finalizada')
VendasPeriodo(u, de, ate) ==
    {i \in 1..Len(vendas) :
        /\ vendas[i].data_venda >= de
        /\ vendas[i].data_venda <= ate
        /\ vendas[i].usuario_id = u
        /\ vendas[i].status = "finalizada"}

RECURSIVE SumTotal(_, _)
\* sum(venda.valor_total for venda in rows), rows the ids in idx up to n
SumTotal(idx, n) ==
    IF n = 0 THEN 0
    ELSE (IF n \in idx THEN vendas[n].valor_total ELSE 0) + SumTotal(idx, n - 1)

TotalVendas(idx) == SumTotal(idx, Len(vendas))

\* the reads of the handler: the open row, the closing instant, the total
fechar_caixa(u) ==
    /\ Ready
    /\ LET movimento_atual == get_caixa_aberto(u) IN
       IF movimento_atual = 0
       THEN /\ last' = Answer("fechar_caixa", u, "invalid_state")
            /\ UNCHANGED fechando
       ELSE LET momento_fechamento == now
                vendas_periodo_post ==
                    VendasPeriodo(u, movimentos[movimento_atual].data_abertura,
                                  momento_fechamento)
            IN /\ \E saldo_final \in SaldosFinais :
                     fechando' = fechando (+) SetToBag({
                        [usuario_id |-> u, movimento |-> movimento_atual,
                         saldo_final |-> saldo_final,
                         momento_fechamento |-> momento_fechamento,
                         total_vendas_geral |->
                             TotalVendas(vendas_periodo_post)]})
               /\ UNCHANGED last
    /\ UNCHANGED <<clock, tz, usuarios, produtos, movimentos, vendas,
                   abrindo, vendendo, sessao_da_venda>>

\* movimento_atual.data_fechamento = ...; .saldo_final = ...; .status = 'fechado'
FecharMovimento(m, momento_fechamento, saldo_final) ==
    [m EXCEPT !.data_fechamento = momento_fechamento,
              !.saldo_final = saldo_final,
              !.status = "fechado"]

\* db.session.commit(): UPDATE movimento_caixa SET ... WHERE id = <the row read>
fechar_caixa_commit(r) ==
    /\ last = NoAnswer
    /\ BagIn(r, fechando)
    /\ fechando' = fechando (-) SetToBag({r})
    /\ movimentos' = [movimentos EXCEPT ![r.movimento] =
                        FecharMovimento(@, r.momento_fechamento, r.saldo_final)]
    /\ last' = [Answer("fechar_caixa", r.usuario_id, "success")
                  EXCEPT !.total = r.total_vendas_geral,
                         !.movimento = r.movimento]
    /\ UNCHANGED <<clock, tz, usuarios, produtos, vendas, abrindo, vendendo,
                   sessao_da_venda>>

\* fechar_caixa (GET): the totals by payment method shown on the closing page
\* of the open session of u, and the sum over every group as total_geral
TotaisFechamento(u) ==
    LET movimento_atual == movimentos[get_caixa_aberto(u)]
        periodo == VendasPeriodo(u, movimento_atual.data_abertura, now)
        Da(forma) == TotalVendas({i \in periodo :
                                    vendas[i].forma_pagamento = forma})
    IN [dinheiro |-> Da("dinheiro"), cartao |-> Da("cartao"),
        pix |-> Da("pix"), total_geral |-> TotalVendas(periodo)]

(***************************************************************************)
(* finalizar_venda                                                         *)
(***************************************************************************)
Carrinhos ==
    UNION {[1..n -> [id : ItemIds, quantidade : Quantidades]] : n \in 0..MaxItens}

CarrinhosJson ==
    UNION {[1..n -> [id : ProdutoIds, quantidade : QuantidadesJson]] :
              n \in 0..MaxItens}

\* The state of the item loop: the session's Produto objects (estoque), the
\* ItemVenda objects built so far, the running total, and the exception raised.
LoopInicio ==
    [estoque |-> [p \in ProdutoIds |-> produtos[p].estoque_atual],
     itens |-> <<>>, total |-> 0, erro |-> "none"]

\* the running total takes the unit price of each line, not its subtotal
MutLoopItemTotal(acc, item_json) ==
    IF acc.erro # "none" THEN acc
    ELSE IF item_json.id \notin ProdutoIds
    THEN [acc EXCEPT !.erro = "not_found"]
    ELSE IF acc.estoque[item_json.id] < item_json.quantidade
    THEN [acc EXCEPT !.erro = "insufficient_stock"]
    ELSE LET preco_unitario == produtos[item_json.id].preco_venda
             subtotal == preco_unitario * item_json.quantidade
         IN [acc EXCEPT
                !.estoque[item_json.id] = @ - item_json.quantidade,
                !.total = @ + preco_unitario,
                !.itens = Append(@, [produto_id |-> item_json.id,
                                     quantidade |-> item_json.quantidade,
                                     preco_unitario |-> preco_unitario,
                                     subtotal |-> subtotal])]

\* One iteration of `for item_json in data['itens']`
LoopItem(acc, item_json) ==
    IF acc.erro # "none" THEN acc
    ELSE IF item_json.id \notin ProdutoIds
    THEN [acc EXCEPT !.erro = "not_found"]
    ELSE IF acc.estoque[item_json.id] < item_json.quantidade
    THEN [acc EXCEPT !.erro = "insufficient_stock"]
    ELSE LET preco_unitario == produtos[item_json.id].preco_venda
             subtotal == preco_unitario * item_json.quantidade
         IN [acc EXCEPT
                !.estoque[item_json.id] = @ - item_json.quantidade,
                !.total = @ + subtotal,
                !.itens = Append(@, [produto_id |-> item_json.id,
                                     quantidade |-> item_json.quantidade,
                                     preco_unitario |-> preco_unitario,
                                     subtotal |-> subtotal])]

RECURSIVE LoopItens(_, _, _)
LoopItens(acc, itens, k) ==
    IF k > Len(itens) THEN acc
    ELSE LoopItens(LoopItem(acc, itens[k]), itens, k + 1)

\* the change is computed and never tested
MutPagamentoSemTeste(forma_pagamento, valor_pago, valor_total) ==
    IF forma_pagamento = "dinheiro"
    THEN [valor_pago |-> valor_pago, troco |-> valor_pago - valor_total,
          erro |-> "none"]
    ELSE [valor_pago |-> valor_total, troco |-> 0, erro |-> "none"]

\* the amount tendered is kept for every payment method
MutPagamentoMantemPago(forma_pagamento, valor_pago, valor_total) ==
    IF forma_pagamento = "dinheiro"
    THEN [valor_pago |-> valor_pago, troco |-> valor_pago - valor_total,
          erro |-> IF valor_pago - valor_total < 0 THEN "payment" ELSE "none"]
    ELSE [valor_pago |-> valor_pago, troco |-> 0, erro |-> "none"]

\* `if forma_pagamento == 'dinheiro': troco = valor_pago - valor_total ...`
Pagamento(forma_pagamento, valor_pago, valor_total) ==
    IF forma_pagamento = "dinheiro"
    THEN [valor_pago |-> valor_pago, troco |-> valor_pago - valor_total,
          erro |-> IF valor_pago - valor_total < 0 THEN "payment" ELSE "none"]
    ELSE [valor_pago |-> valor_total, troco |-> 0, erro |-> "none"]

\* the handler up to db.session.commit(): the checks, the item loop over the
\* session's objects, the payment check.  A raised exception is answered after
\* db.session.rollback(), which discards the session's objects.
\* carrinhos, formas, valores: the request bodies the clients send
FinalizarVenda(u, carrinhos, formas, valores) ==
    /\ Ready
    /\ IF get_caixa_aberto(u) = 0
       THEN /\ last' = Answer("finalizar_venda", u, "forbidden")
            /\ UNCHANGED vendendo
       ELSE \E itens \in carrinhos :
            IF itens = <<>>
            THEN /\ last' = Answer("finalizar_venda", u, "empty_cart")
                 /\ UNCHANGED vendendo
            ELSE LET numero_venda == timestamp
                     loop == LoopItens(LoopInicio, itens, 1)
                 IN IF loop.erro # "none"
                    THEN /\ last' = Answer("finalizar_venda", u, loop.erro)
                         /\ UNCHANGED vendendo
                    ELSE \E forma_pagamento \in formas,
                            valor_pago \in valores :
                         LET pag == Pagamento(forma_pagamento, valor_pago,
                                              loop.total)
                         IN IF pag.erro # "none"
                            THEN /\ last' = Answer("finalizar_venda", u, pag.erro)
                                 /\ UNCHANGED vendendo
                            ELSE /\ Len(vendas) + BagCardinality(vendendo)
                                       < MaxVendas
                                 /\ vendendo' = vendendo (+) SetToBag({
                                       [usuario_id |-> u,
                                        numero_venda |-> numero_venda,
                                        valor_total |-> loop.total,
                                        valor_pago |-> pag.valor_pago,
                                        troco |-> pag.troco,
                                        forma_pagamento |-> forma_pagamento,
                                        itens |-> loop.itens,
                                        estoque_lido |-> LoopInicio.estoque,
                                        estoque_novo |-> loop.estoque]})
                                 /\ UNCHANGED last
    /\ UNCHANGED <<clock, tz, usuarios, produtos, movimentos, vendas,
                   abrindo, fechando, sessao_da_venda>>

\* the requests of the till page: positive quantities, a listed payment method
finalizar_venda(u) ==
    FinalizarVenda(u, Carrinhos, FormasPagamento, ValoresPagos)

\* any JSON body: quantities of any sign, any payment method string
finalizar_venda_json(u) ==
    FinalizarVenda(u, CarrinhosJson, FormasJson, ValoresPagos)

\* INSERT INTO vendas (and itens_venda): data_venda takes the column default
NovaVenda(r) ==
    [numero_venda |-> r.numero_venda, data_venda |-> utcnow,
     valor_total |-> r.valor_total, valor_pago |-> r.valor_pago,
     troco |-> r.troco, forma_pagamento |-> r.forma_pagamento,
     status |-> "finalizada", usuario_id |-> r.usuario_id, itens |-> r.itens]

\* the sale is recorded and the stock left as it was
MutGravaEstoque(r) == produtos

\* UPDATE produtos SET estoque_atual = estoque_atual - <units of the cart>
MutGravaEstoqueRelativo(r) ==
    [p \in ProdutoIds |->
        [produtos[p] EXCEPT !.estoque_atual =
            @ - (r.estoque_lido[p] - r.estoque_novo[p])]]

\* UPDATE produtos SET estoque_atual = <the session's value> WHERE id, for
\* every Produto object of the session whose estoque_atual was changed
GravaEstoque(r) ==
    [p \in ProdutoIds |->
        IF r.estoque_novo[p] # r.estoque_lido[p]
        THEN [produtos[p] EXCEPT !.estoque_atual = r.estoque_novo[p]]
        ELSE produtos[p]]

\* the column without its UNIQUE constraint
MutSemUnique(numero_venda) == FALSE

\* numero_venda is UNIQUE: the INSERT of a second row with it fails
NumeroDuplicado(numero_venda) ==
    \E i \in 1..Len(vendas) : vendas[i].numero_venda = numero_venda

\* except: db.session.rollback(): the store keeps what it held
Rollback(r) == produtos

\* db.session.add(nova_venda); db.session.commit()
finalizar_venda_commit(r) ==
    /\ last = NoAnswer
    /\ BagIn(r, vendendo)
    /\ vendendo' = vendendo (-) SetToBag({r})
    /\ IF NumeroDuplicado(r.numero_venda)
       THEN /\ last' = Answer("finalizar_venda", r.usuario_id, "integrity_error")
            /\ produtos' = Rollback(r)
            /\ UNCHANGED <<vendas, sessao_da_venda>>
       ELSE /\ vendas' = Append(vendas, NovaVenda(r))
            /\ produtos' = GravaEstoque(r)
            /\ sessao_da_venda' =
                  Append(sessao_da_venda, get_caixa_aberto(r.usuario_id))
            /\ last' = Answer("finalizar_venda", r.usuario_id, "success")
    /\ UNCHANGED <<clock, tz, usuarios, movimentos, abrindo, fechando>>

(***************************************************************************)
(* dashboard: the status of every operator's till                          *)
(***************************************************************************)
Abs(x) == IF x < 0 THEN 0 - x ELSE x

\* the filter on ativo left out
MutOperadoresTodos ==
    {u \in UsuarioIds : usuarios[u].perfil \in {"caixa", "admin"}}

Operadores ==
    {u \in UsuarioIds : usuarios[u].perfil \in {"caixa", "admin"}
                        /\ usuarios[u].ativo}

\* order_by(data_abertura.desc()).first(): a row of the operator with the
\* latest data_abertura; which one among equals is the store's choice
UltimosMovimentos(op) ==
    {i \in 1..Len(movimentos) :
        /\ movimentos[i].usuario_id = op
        /\ \A j \in 1..Len(movimentos) :
              movimentos[j].usuario_id = op
              => movimentos[j].data_abertura <= movimentos[i].data_abertura}

\* the filter on forma_pagamento left out
MutVendasDinheiro(m, op) ==
    {i \in 1..Len(vendas) :
        /\ vendas[i].data_venda >= m.data_abertura
        /\ vendas[i].data_venda <= m.data_fechamento
        /\ vendas[i].usuario_id = op
        /\ vendas[i].status = "finalizada"}

VendasDinheiro(m, op) ==
    {i \in 1..Len(vendas) :
        /\ vendas[i].data_venda >= m.data_abertura
        /\ vendas[i].data_venda <= m.data_fechamento
        /\ vendas[i].usuario_id = op
        /\ vendas[i].status = "finalizada"
        /\ vendas[i].forma_pagamento = "dinheiro"}

OrZero(x) == IF x = Null THEN 0 ELSE x

SaldoEsperado(m, op) == OrZero(m.saldo_inicial) + TotalVendas(VendasDinheiro(m, op))

Diferenca(m, op) == OrZero(m.saldo_final) - SaldoEsperado(m, op)

\* abs(diferenca) > 0.001, diferenca in centavos
MostrarDiferenca(diferenca) == Abs(diferenca) * 10 > 1

StatusCaixa(op, i) ==
    IF i = 0
    THEN [status |-> "nunca_aberto", data |-> Null, diferenca |-> 0,
          saldo_esperado |-> 0, saldo_informado |-> 0,
          mostrar_diferenca |-> FALSE]
    ELSE LET ultimo_movimento == movimentos[i] IN
         IF ultimo_movimento.status = "fechado"
         THEN [status |-> "fechado",
               data |-> ultimo_movimento.data_fechamento,
               diferenca |-> Diferenca(ultimo_movimento, op),
               saldo_esperado |-> SaldoEsperado(ultimo_movimento, op),
               saldo_informado |-> OrZero(ultimo_movimento.saldo_final),
               mostrar_diferenca |->
                   MostrarDiferenca(Diferenca(ultimo_movimento, op))]
         ELSE [status |-> ultimo_movimento.status,
               data |-> ultimo_movimento.data_abertura, diferenca |-> 0,
               saldo_esperado |-> 0, saldo_informado |-> 0,
               mostrar_diferenca |-> FALSE]

dashboard(u) ==
    /\ Ready
    /\ IF usuarios[u].perfil # "admin"
       THEN last' = Answer("dashboard", u, "unauthorized")
       ELSE \E ultimo \in [Operadores -> 0..Len(movimentos)] :
               /\ \A op \in Operadores :
                     IF UltimosMovimentos(op) = {} THEN ultimo[op] = 0
                     ELSE ultimo[op] \in UltimosMovimentos(op)
               /\ last' = [Answer("dashboard", u, "ok") EXCEPT
                             !.status_caixas =
                                [op \in Operadores |->
                                    [usuario_id |-> op, movimento |-> ultimo[op]]
                                    @@ StatusCaixa(op, ultimo[op])]]
    /\ UNCHANGED <<clock, tz, usuarios, produtos, movimentos, vendas,
                   abrindo, fechando, vendendo, sessao_da_venda>>

(***************************************************************************)
(* Product and user administration                                         *)
(*                                                                         *)
(* These handlers write the values of the form, whatever the row held, and *)
(* commit at once: each is one step.                                       *)
(***************************************************************************)
\* the edit also reprices the items of the sales already made
MutProdutosEditarRemarca(u, p) ==
    /\ Ready
    /\ usuarios[u].perfil = "admin"
    /\ \E preco_venda \in PrecosForm, estoque_atual \in EstoquesForm :
          /\ produtos' = [produtos EXCEPT
                            ![p].preco_venda = preco_venda,
                            ![p].estoque_atual = estoque_atual]
          /\ vendas' = [i \in 1..Len(vendas) |->
                [vendas[i] EXCEPT
                   !.itens = [k \in 1..Len(vendas[i].itens) |->
                      IF vendas[i].itens[k].produto_id = p
                      THEN [vendas[i].itens[k] EXCEPT
                              !.preco_unitario = preco_venda,
                              !.subtotal =
                                  preco_venda * vendas[i].itens[k].quantidade]
                      ELSE vendas[i].itens[k]],
                   !.valor_total = SumSeq([k \in 1..Len(vendas[i].itens) |->
                      IF vendas[i].itens[k].produto_id = p
                      THEN preco_venda * vendas[i].itens[k].quantidade
                      ELSE vendas[i].itens[k].subtotal])]]
          /\ last' = Answer("produtos_editar", u, "success")
    /\ UNCHANGED <<clock, tz, usuarios, movimentos,
                   abrindo, fechando, vendendo, sessao_da_venda>>

\* produtos_editar (POST): preco_venda and estoque_atual of the form
produtos_editar(u, p) ==
    /\ Ready
    /\ IF usuarios[u].perfil # "admin"
       THEN /\ last' = Answer("produtos_editar", u, "unauthorized")
            /\ UNCHANGED produtos
       ELSE \E preco_venda \in PrecosForm, estoque_atual \in EstoquesForm :
               /\ produtos' = [produtos EXCEPT
                                 ![p].preco_venda = preco_venda,
                                 ![p].estoque_atual = estoque_atual]
               /\ last' = Answer("produtos_editar", u, "success")
    /\ UNCHANGED <<clock, tz, usuarios, movimentos, vendas,
                   abrindo, fechando, vendendo, sessao_da_venda>>

\* DELETE FROM produtos WHERE id = p
MutProdutosDeletarRemove(u, p) ==
    /\ Ready
    /\ usuarios[u].perfil = "admin"
    /\ produtos' = [q \in DOMAIN produtos \ {p} |-> produtos[q]]
    /\ last' = Answer("produtos_deletar", u, "success")
    /\ UNCHANGED <<clock, tz, usuarios, movimentos, vendas,
                   abrindo, fechando, vendendo, sessao_da_venda>>

\* produtos_deletar: produto.ativo = False
produtos_deletar(u, p) ==
    /\ Ready
    /\ IF usuarios[u].perfil # "admin"
       THEN /\ last' = Answer("produtos_deletar", u, "unauthorized")
            /\ UNCHANGED produtos
       ELSE /\ produtos' = [produtos EXCEPT ![p].ativo = FALSE]
            /\ last' = Answer("produtos_deletar", u, "success")
    /\ UNCHANGED <<clock, tz, usuarios, movimentos, vendas,
                   abrindo, fechando, vendendo, sessao_da_venda>>

\* usuarios_deletar: usuario.ativo = False, except for the admin's own row
usuarios_deletar(u, id) ==
    /\ Ready
    /\ IF usuarios[u].perfil # "admin"
       THEN /\ last' = Answer("usuarios_deletar", u, "unauthorized")
            /\ UNCHANGED usuarios
       ELSE IF id = u
       THEN /\ last' = Answer("usuarios_deletar", u, "own_account")
            /\ UNCHANGED usuarios
       ELSE /\ usuarios' = [usuarios EXCEPT ![id].ativo = FALSE]
            /\ last' = Answer("usuarios_deletar", u, "success")
    /\ UNCHANGED <<clock, tz, produtos, movimentos, vendas,
                   abrindo, fechando, vendendo, sessao_da_venda>>

(***************************************************************************)
(* relatorios: the summary of the sales of a period                        *)
(*                                                                         *)
(* Here a datetime is a record of its date (a day number), its time of day *)
(* in seconds (0 is 00:00:00, UltimoSegundo is 23:59:59) and its           *)
(* microsecond; a date string of the query is valid (it names a day),      *)
(* empty or invalid.                                                       *)
(***************************************************************************)
\* timedelta(days=6)
DiasJanela == 6

DataHora(dia, segundo, micro) ==
    [dia |-> dia, segundo |-> segundo, micro |-> micro]

\* the order of datetimes
Instante(d) ==
    (d.dia * (UltimoSegundo + 1) + d.segundo) * (MaxMicro + 1) + d.micro

DataValida(dia) == [tipo |-> "data", dia |-> dia]
DataVazia == [tipo |-> "vazia", dia |-> 0]
DataInvalida == [tipo |-> "invalida", dia |-> 0]

\* request.args: inicio, fim, caixa_id, forma_pgto
DataStrs == {DataVazia, DataInvalida,
             DataValida(Hoje - DiasJanela), DataValida(Hoje)}
CaixaIds == {0, 2}
FormasFiltro == {"todos", "dinheiro"}

\* datetime.now() of the request, local time
Agoras ==
    {DataHora(Hoje, s, m) : s \in 0..UltimoSegundo, m \in 0..MaxMicro}

\* d.strftime('%Y-%m-%d')
strftime(d) == DataValida(d.dia)

\* datetime.strptime(s, '%Y-%m-%d'): midnight of the day, or ValueError
strptime(s) ==
    IF s.tipo = "data"
    THEN [erro |-> FALSE, valor |-> DataHora(s.dia, 0, 0)]
    ELSE [erro |-> TRUE, valor |-> DataHora(0, 0, 0)]

\* d.replace(hour=0, minute=0, second=0): the microsecond stays
InicioDoDia(d) == [d EXCEPT !.segundo = 0]

\* d.replace(hour=23, minute=59, second=59): the microsecond stays
FimDoDia(d) == [d EXCEPT !.segundo = UltimoSegundo]

\* d - timedelta(days=n)
MenosDias(d, n) == [d EXCEPT !.dia = @ - n]

\* data_inicio and data_fim of the query, from the two strings and the clock
Janela(inicio, fim, agora) ==
    LET hoje_local == DataHora(agora.dia, 0, 0)
        data_inicio_str == IF inicio.tipo = "vazia"
                           THEN strftime(MenosDias(hoje_local, DiasJanela))
                           ELSE inicio
        data_fim_str == IF fim.tipo = "vazia" THEN strftime(hoje_local)
                        ELSE fim
    IN IF ~strptime(data_inicio_str).erro /\ ~strptime(data_fim_str).erro
       THEN [data_inicio |-> InicioDoDia(strptime(data_inicio_str).valor),
             data_fim |-> FimDoDia(strptime(data_fim_str).valor)]
       ELSE LET data_fim_dt_local == FimDoDia(agora)
                data_inicio_dt_local ==
                    InicioDoDia(MenosDias(data_fim_dt_local, DiasJanela))
            IN [data_inicio |-> data_inicio_dt_local,
                data_fim |-> data_fim_dt_local]

\* the rows of query_sumario
LinhasSumario(janela, caixa_selecionado, forma_pgto_selecionada) ==
    {i \in 1..Len(vendas) :
        /\ vendas[i].status = "finalizada"
        /\ Instante(vendas[i].data_venda) >= Instante(janela.data_inicio)
        /\ Instante(vendas[i].data_venda) <= Instante(janela.data_fim)
        /\ (caixa_selecionado > 0 => vendas[i].usuario_id = caixa_selecionado)
        /\ (forma_pgto_selecionada # "todos"
              => vendas[i].forma_pagamento = forma_pgto_selecionada)}

\* the handler reads and answers: one step
relatorios(u) ==
    /\ Ready
    /\ IF usuarios[u].perfil # "admin"
       THEN last' = Answer("relatorios", u, "unauthorized")
       ELSE \E inicio \in DataStrs, fim \in DataStrs, caixa_id \in CaixaIds,
               forma_pgto \in FormasFiltro, agora \in Agoras :
            LET janela == Janela(inicio, fim, agora)
                linhas == LinhasSumario(janela, caixa_id, forma_pgto)
            IN last' = [Answer("relatorios", u, "ok") EXCEPT
                          !.total = TotalVendas(linhas)]
                       @@ [sumario |->
                             [inicio |-> inicio, fim |-> fim,
                              caixa_id |-> caixa_id, forma_pgto |-> forma_pgto,
                              agora |-> agora,
                              data_inicio |-> janela.data_inicio,
                              data_fim |-> janela.data_fim,
                              num_vendas |-> Cardinality(linhas)]]
    /\ UNCHANGED <<clock, tz, usuarios, produtos, movimentos, vendas,
                   abrindo, fechando, vendendo, sessao_da_venda>>

(***************************************************************************)
(* The clock                                                               *)
(***************************************************************************)
Tick ==
    /\ last = NoAnswer
    /\ clock < MaxTime
    /\ clock' = clock + 1
    /\ UNCHANGED <<last, tz, usuarios, produtos, movimentos, vendas,
                   abrindo, fechando, vendendo, sessao_da_venda>>

\* the answer of the handler leaves the server
Respond ==
    /\ last # NoAnswer
    /\ last' = NoAnswer
    /\ UNCHANGED <<clock, tz, usuarios, produtos, movimentos, vendas,
                   abrindo, fechando, vendendo, sessao_da_venda>>

Next ==
    \/ Tick
    \/ Respond
    \/ \E u \in UsuarioIds : abrir_caixa(u)
    \/ \E r \in BagToSet(abrindo) : abrir_caixa_commit(r)
    \/ \E u \in UsuarioIds : fechar_caixa(u)
    \/ \E r \in BagToSet(fechando) : fechar_caixa_commit(r)
    \/ \E u \in UsuarioIds : finalizar_venda(u)
    \/ \E r \in BagToSet(vendendo) : finalizar_venda_commit(r)
    \/ \E u \in UsuarioIds : dashboard(u)

Spec == Init /\ [][Next]_vars

(***************************************************************************)
(* Checkout alone: the operator has opened the till, the product has       *)
(* EstoqueVenda units, and the clients send any JSON body.                 *)
(***************************************************************************)
InitVenda ==
    /\ clock = 0
    /\ tz = 0
    /\ usuarios = (1 :> [perfil |-> "admin", ativo |-> TRUE] @@
                   2 :> [perfil |-> "caixa", ativo |-> TRUE])
    /\ produtos = [p \in ProdutoIds |->
                     [preco_venda |-> PrecoArroz,
                      estoque_atual |-> EstoqueVenda,
                      ativo |-> TRUE]]
    /\ movimentos = <<NovoCaixa(2, 10000)>>
    /\ vendas = <<>>
    /\ abrindo = EmptyBag
    /\ fechando = EmptyBag
    /\ vendendo = EmptyBag
    /\ sessao_da_venda = <<>>
    /\ last = NoAnswer

NextVenda ==
    \/ Tick
    \/ Respond
    \/ \E u \in UsuarioIds : finalizar_venda_json(u)
    \/ \E r \in BagToSet(vendendo) : finalizar_venda_commit(r)

SpecVenda == InitVenda /\ [][NextVenda]_vars

(***************************************************************************)
(* The shop and its users: the cashiers work the till, while the admin     *)
(* deactivates users and products and reads the dashboard.                 *)
(***************************************************************************)
Caixas == {u \in UsuarioIds : usuarios[u].perfil = "caixa"}

InitAdmin == Init /\ tz = 0

NextAdmin ==
    \/ Tick
    \/ Respond
    \/ \E u \in Caixas : abrir_caixa(u)
    \/ \E r \in BagToSet(abrindo) : abrir_caixa_commit(r)
    \/ \E u \in Caixas : fechar_caixa(u)
    \/ \E r \in BagToSet(fechando) : fechar_caixa_commit(r)
    \/ \E u \in Caixas : finalizar_venda(u)
    \/ \E r \in BagToSet(vendendo) : finalizar_venda_commit(r)
    \/ \E u \in UsuarioIds : dashboard(u)
    \/ \E u \in UsuarioIds, p \in ProdutoIds : produtos_deletar(u, p)
    \/ \E u, id \in UsuarioIds : usuarios_deletar(u, id)

SpecAdmin == InitAdmin /\ [][NextAdmin]_vars

(***************************************************************************)
(* The shop and its products: the cashier has opened the till and sells,   *)
(* then closes, while the admin edits and deactivates products.            *)
(***************************************************************************)
InitProdutos ==
    /\ clock = 0
    /\ tz = 0
    /\ usuarios = (1 :> [perfil |-> "admin", ativo |-> TRUE] @@
                   2 :> [perfil |-> "caixa", ativo |-> TRUE])
    /\ produtos = [p \in ProdutoIds |->
                     [preco_venda |-> PrecoArroz,
                      estoque_atual |-> EstoqueInicial,
                      ativo |-> TRUE]]
    /\ movimentos = <<NovoCaixa(2, 10000)>>
    /\ vendas = <<>>
    /\ abrindo = EmptyBag
    /\ fechando = EmptyBag
    /\ vendendo = EmptyBag
    /\ sessao_da_venda = <<>>
    /\ last = NoAnswer

NextProdutos ==
    \/ Tick
    \/ Respond
    \/ \E u \in Caixas : fechar_caixa(u)
    \/ \E r \in BagToSet(fechando) : fechar_caixa_commit(r)
    \/ \E u \in Caixas : finalizar_venda(u)
    \/ \E r \in BagToSet(vendendo) : finalizar_venda_commit(r)
    \/ \E u \in UsuarioIds, p \in ProdutoIds : produtos_editar(u, p)
    \/ \E u \in UsuarioIds, p \in ProdutoIds : produtos_deletar(u, p)

SpecProdutos == InitProdutos /\ [][NextProdutos]_vars

(***************************************************************************)
(* The reports over a table of sales: rows of any status, operator and     *)
(* payment method, stamped around the ends of the default period.          *)
(***************************************************************************)
DatasVenda ==
    {DataHora(Hoje - DiasJanela - 1, UltimoSegundo, MaxMicro),
     DataHora(Hoje - DiasJanela, 0, 0),
     DataHora(Hoje - DiasJanela, 0, MaxMicro),
     DataHora(Hoje, UltimoSegundo, 0),
     DataHora(Hoje, UltimoSegundo, MaxMicro),
     DataHora(Hoje + 1, 0, 0)}

LinhasVenda ==
    [data_venda : DatasVenda, status : {"finalizada", "cancelada"},
     usuario_id : UsuarioIds, forma_pagamento : {"dinheiro", "cartao"},
     valor_total : {PrecoArroz}]

InitRelatorios ==
    /\ clock = 0
    /\ tz = 0
    /\ usuarios = (1 :> [perfil |-> "admin", ativo |-> TRUE] @@
                   2 :> [perfil |-> "caixa", ativo |-> TRUE])
    /\ produtos = [p \in ProdutoIds |->
                     [preco_venda |-> PrecoArroz,
                      estoque_atual |-> EstoqueInicial,
                      ativo |-> TRUE]]
    /\ movimentos = <<>>
    /\ vendas \in UNION {[1..n -> LinhasVenda] : n \in 0..MaxVendas}
    /\ abrindo = EmptyBag
    /\ fechando = EmptyBag
    /\ vendendo = EmptyBag
    /\ sessao_da_venda = <<>>
    /\ last = NoAnswer

NextRelatorios ==
    \/ Respond
    \/ \E u \in UsuarioIds : relatorios(u)

SpecRelatorios == InitRelatorios /\ [][NextRelatorios]_vars

(***************************************************************************)
(* Properties                                                              *)
(***************************************************************************)
Fechados == {i \in 1..Len(movimentos) : movimentos[i].status = "fechado"}

\* units of product p on the lines of sale v
QuantidadeVendida(v, p) ==
    SumSeq([k \in 1..Len(v.itens) |->
              IF v.itens[k].produto_id = p THEN v.itens[k].quantidade ELSE 0])

\* C1: in every reachable state every operator has at most one till session
\* with status 'aberto', also when abrir_caixa requests run concurrently.
C1_OneOpenSessionPerOperator ==
    \A u \in UsuarioIds : Cardinality(CaixasAbertos(u)) <= 1

\* C2: a sale is committed only for units the store still holds: of two
\* concurrent sales of the last unit of a product at most one commits.
C2_LastUnitSoldOnce ==
    [][Len(vendas') > Len(vendas)
         => \A p \in ProdutoIds :
               QuantidadeVendida(vendas'[Len(vendas')], p)
                  <= produtos[p].estoque_atual]_vars

\* C3: finalizar_venda is all-or-nothing: a call that fails (in the item loop,
\* at the payment check or at commit) leaves the persisted stock and sales as
\* they were, and stock or sales change only by one step that persists the
\* Venda row, all its items and every stock decrement of the cart together.
C3_AllOrNothing ==
    [][/\ (last'.op = "finalizar_venda" /\ last'.outcome # "success")
            => (produtos' = produtos /\ vendas' = vendas)
       /\ (produtos' # produtos \/ vendas' # vendas)
            => \E r \in BagToSet(vendendo) :
                  /\ last'.op = "finalizar_venda" /\ last'.outcome = "success"
                  /\ Len(vendas') = Len(vendas) + 1
                  /\ SubSeq(vendas', 1, Len(vendas)) = vendas
                  /\ vendas'[Len(vendas')].itens = r.itens
                  /\ r.itens # <<>>
                  /\ \A k \in 1..Len(r.itens) :
                        produtos'[r.itens[k].produto_id].estoque_atual
                           = r.estoque_lido[r.itens[k].produto_id]
                             - QuantidadeVendida(vendas'[Len(vendas')],
                                                 r.itens[k].produto_id)]_vars

\* C3 witness: a finalize that failed at commit time, after its in-memory
\* decrements, with the stock it had read still in the store or sold by another
C3_Witness ==
    /\ last.op = "finalizar_venda"
    /\ last.outcome = "integrity_error"
    /\ Len(vendas) = 1

\* C4: every persisted sale was committed while its operator had a till
\* session with status 'aberto'.
C4_SaleOnlyWithOpenSession ==
    \A i \in 1..Len(vendas) : sessao_da_venda[i] # 0

\* C5: the total shown by a successful close equals the sum of valor_total of
\* the operator's finalized sales with data_venda in [data_abertura,
\* data_fechamento] of the record the close persisted.
C5_TotalShownMatchesPersistedWindow ==
    (last.op = "fechar_caixa" /\ last.outcome = "success")
    => LET m == movimentos[last.movimento] IN
       /\ m.status = "fechado"
       /\ last.total = SumSeq([k \in 1..Len(vendas) |->
              IF /\ vendas[k].usuario_id = last.user
                 /\ vendas[k].status = "finalizada"
                 /\ vendas[k].data_venda >= m.data_abertura
                 /\ vendas[k].data_venda <= m.data_fechamento
              THEN vendas[k].valor_total ELSE 0])

\* saldo_inicial plus the operator's finalized cash sales inside the window
CashExpected(i) ==
    LET m == movimentos[i] IN
    m.saldo_inicial
    + SumSeq([k \in 1..Len(vendas) |->
         IF /\ vendas[k].usuario_id = m.usuario_id
            /\ vendas[k].status = "finalizada"
            /\ vendas[k].forma_pagamento = "dinheiro"
            /\ m.data_abertura <= vendas[k].data_venda
            /\ vendas[k].data_venda <= m.data_fechamento
         THEN vendas[k].valor_total ELSE 0])

\* C6: for every closed session the dashboard reports, the expected balance is
\* saldo_inicial plus the valor_total of exactly the operator's finalized cash
\* sales with data_venda in [data_abertura, data_fechamento].
C6_ExpectedCashBalance ==
    (last.op = "dashboard" /\ last.outcome = "ok")
    => \A op \in DOMAIN last.status_caixas :
          LET e == last.status_caixas[op] IN
          e.status = "fechado"
          => /\ e.movimento \in Fechados
             /\ movimentos[e.movimento].usuario_id = op
             /\ e.saldo_esperado = CashExpected(e.movimento)

\* C6 witness: the dashboard reports a closed session whose window holds a cash
\* sale of its operator, while the store also holds a sale that must not count
C6_Witness ==
    /\ last.op = "dashboard" /\ last.outcome = "ok"
    /\ \E op \in DOMAIN last.status_caixas :
          LET e == last.status_caixas[op] IN
          /\ e.status = "fechado"
          /\ e.saldo_esperado > movimentos[e.movimento].saldo_inicial
          /\ \E k \in 1..Len(vendas) :
                \/ vendas[k].forma_pagamento # "dinheiro"
                \/ vendas[k].usuario_id # op

\* C7: once a session is closed, no later step changes the expected balance
\* or the variance the dashboard computes for it.
C7_ClosedBalanceIsStable ==
    [][\A i \in Fechados :
          /\ SaldoEsperado(movimentos[i], movimentos[i].usuario_id)'
                = SaldoEsperado(movimentos[i], movimentos[i].usuario_id)
          /\ Diferenca(movimentos[i], movimentos[i].usuario_id)'
                = Diferenca(movimentos[i], movimentos[i].usuario_id)]_vars

\* C8: a sale committed while session S of its operator was open has, once S
\* is closed, data_venda in [S.data_abertura, S.data_fechamento].
C8_SaleInsideItsSession ==
    \A k \in 1..Len(vendas) :
       LET i == sessao_da_venda[k] IN
       (i # 0 /\ i \in Fechados)
       => /\ movimentos[i].data_abertura <= vendas[k].data_venda
          /\ vendas[k].data_venda <= movimentos[i].data_fechamento

\* total of the finalized cash sales committed while session i was open
CashSalesOfSession(i) ==
    SumSeq([k \in 1..Len(vendas) |->
              IF /\ sessao_da_venda[k] = i
                 /\ vendas[k].status = "finalizada"
                 /\ vendas[k].forma_pagamento = "dinheiro"
              THEN vendas[k].valor_total ELSE 0])

\* C9: for a closed session with float F and cash sales totalling T, declared
\* cash F + T gives variance 0 and no flag, declared cash F gives variance -T
\* and a flag exactly when T exceeds the tolerance.
C9_VarianceOfDeclaredCash ==
    \A i \in Fechados :
       LET m == movimentos[i]
           F == m.saldo_inicial
           T == CashSalesOfSession(i)
           d == Diferenca(m, m.usuario_id)
       IN /\ m.saldo_final = F + T => (d = 0 /\ ~MostrarDiferenca(d))
          /\ m.saldo_final = F
                => (d = 0 - T /\ (MostrarDiferenca(d) <=> T * 10 > 1))

\* C10: a closed session is never written again: its status, data_fechamento
\* and saldo_final stay what the close that flipped the status wrote.
C10_ClosedIsTerminal ==
    [][\A i \in Fechados : movimentos'[i] = movimentos[i]]_vars

\* C11: an abrir_caixa call made while its operator has an open session is
\* answered with the conflict outcome, creates no MovimentoCaixa (neither at
\* once nor by a later commit of that call) and leaves every row as it was.
C11_OpenWhileOpenIsRejected ==
    [][/\ (last' # last /\ last'.op = "abrir_caixa"
             /\ last'.outcome = "conflict")
            => /\ CaixasAbertos(last'.user) # {}
               /\ movimentos' = movimentos
               /\ abrindo' = abrindo
       /\ \A u \in UsuarioIds :
             CaixasAbertos(u) # {}
             => \A r \in BagToSet(abrindo') :
                   r.usuario_id = u
                   => CopiesIn(r, abrindo') <= CopiesIn(r, abrindo)]_vars

\* C11 witness: the conflict answer, with the open session in the store
C11_Witness ==
    /\ last.op = "abrir_caixa"
    /\ last.outcome = "conflict"
    /\ CaixasAbertos(last.user) # {}

\* C12: a fechar_caixa call for an operator with no open session is answered
\* with the invalid-state outcome and writes nothing, and a session is written
\* by a close only while its status is 'aberto'.
C12_CloseNeedsOpenSession ==
    [][/\ (last' # last /\ last'.op = "fechar_caixa"
             /\ last'.outcome = "invalid_state")
            => /\ CaixasAbertos(last'.user) = {}
               /\ movimentos' = movimentos
               /\ fechando' = fechando
       /\ (last' # last /\ last'.op = "fechar_caixa"
             /\ last'.outcome = "success")
            => movimentos[last'.movimento].status = "aberto"]_vars

\* C13: a finalizar_venda call made while its operator has no open session is
\* answered with the forbidden outcome whatever the cart holds (no outcome of
\* the cart checks is possible), and persists nothing: no sale, no item, no
\* stock change, neither at once nor by a later commit of that call.
C13_SaleWithoutSessionIsForbidden ==
    [][/\ (last' # last /\ last'.op = "finalizar_venda"
             /\ last'.outcome = "forbidden")
            => /\ CaixasAbertos(last'.user) = {}
               /\ vendas' = vendas
               /\ produtos' = produtos
               /\ vendendo' = vendendo
       /\ \A u \in UsuarioIds :
             CaixasAbertos(u) = {}
             => /\ \A r \in BagToSet(vendendo') :
                      r.usuario_id = u
                      => CopiesIn(r, vendendo') <= CopiesIn(r, vendendo)
                /\ ~ /\ last' # last
                     /\ last'.op = "finalizar_venda"
                     /\ last'.user = u
                     /\ last'.outcome \in {"empty_cart", "not_found",
                                           "insufficient_stock", "payment"}]_vars

\* C13 witness: the forbidden answer to an operator whose session is closed,
\* while the product is in stock
C13_Witness ==
    /\ last.op = "finalizar_venda"
    /\ last.outcome = "forbidden"
    /\ \E i \in Fechados : movimentos[i].usuario_id = last.user
    /\ \E p \in ProdutoIds : produtos[p].estoque_atual > 0

\* C14: a finalizar_venda call with a cart item that asks for more units than
\* the product's stock at the time of the call does not go on to commit, and
\* the insufficient-stock answer leaves the persisted stock of every product
\* (and the sales) as they were before the call.
C14_InsufficientStockFailsWhole ==
    [][/\ (last' # last /\ last'.op = "finalizar_venda"
             /\ last'.outcome = "insufficient_stock")
            => /\ produtos' = produtos
               /\ vendas' = vendas
               /\ vendendo' = vendendo
       /\ \A r \in BagToSet(vendendo') :
             CopiesIn(r, vendendo') > CopiesIn(r, vendendo)
             => \A k \in 1..Len(r.itens) :
                   r.itens[k].quantidade
                      <= produtos[r.itens[k].produto_id].estoque_atual]_vars

\* C15: every persisted cash sale has troco = valor_pago - valor_total and
\* troco >= 0; a cash finalize whose amount tendered (0 when missing) is below
\* the cart total is answered with the payment error, is not admitted to
\* commit and changes neither sales nor stock.
C15_CashChange ==
    /\ [](\A i \in 1..Len(vendas) :
             vendas[i].forma_pagamento = "dinheiro"
             => /\ vendas[i].troco = vendas[i].valor_pago - vendas[i].valor_total
                /\ vendas[i].troco >= 0)
    /\ [][/\ (last' # last /\ last'.op = "finalizar_venda"
                /\ last'.outcome = "payment")
               => /\ vendas' = vendas
                  /\ produtos' = produtos
                  /\ vendendo' = vendendo
          /\ \A r \in BagToSet(vendendo') :
                (CopiesIn(r, vendendo') > CopiesIn(r, vendendo)
                   /\ r.forma_pagamento = "dinheiro")
                => r.valor_pago >= r.valor_total]_vars

\* C15 witness: a cash sale just committed with change to give back
C15_Witness ==
    /\ last.op = "finalizar_venda"
    /\ last.outcome = "success"
    /\ vendas # <<>>
    /\ vendas[Len(vendas)].forma_pagamento = "dinheiro"
    /\ vendas[Len(vendas)].valor_total > 0
    /\ vendas[Len(vendas)].troco > 0

\* C16: every persisted sale whose payment method is not cash has valor_pago
\* equal to valor_total and troco 0, whatever amount tendered the request sent.
C16_NonCashPaysTotal ==
    \A i \in 1..Len(vendas) :
       vendas[i].forma_pagamento # "dinheiro"
       => /\ vendas[i].valor_pago = vendas[i].valor_total
          /\ vendas[i].troco = 0

\* C16 witness: a sale just committed by card or another method, with a total
\* that no request sends as amount tendered
C16_Witness ==
    /\ last.op = "finalizar_venda"
    /\ last.outcome = "success"
    /\ vendas # <<>>
    /\ vendas[Len(vendas)].forma_pagamento # "dinheiro"
    /\ vendas[Len(vendas)].valor_total \notin ValoresPagos

\* C17: for every persisted sale, valor_total is the sum of the subtotals of
\* its items, and the subtotal of each item is its preco_unitario times its
\* quantidade.
C17_TotalIsSumOfSubtotals ==
    \A i \in 1..Len(vendas) :
       LET itens == vendas[i].itens IN
       /\ vendas[i].valor_total
             = SumSeq([k \in 1..Len(itens) |-> itens[k].subtotal])
       /\ \A k \in 1..Len(itens) :
             itens[k].subtotal = itens[k].preco_unitario * itens[k].quantidade

\* C17 witness: a sale just committed with two lines, one of them of 2 units
C17_Witness ==
    /\ last.op = "finalizar_venda"
    /\ last.outcome = "success"
    /\ vendas # <<>>
    /\ Len(vendas[Len(vendas)].itens) = 2
    /\ \E k \in 1..2 : vendas[Len(vendas)].itens[k].quantidade = 2

\* C18: the persisted estoque_atual of every product is never negative, after
\* any committed sale, for any cart (the same product on several lines
\* included) and any interleaving of concurrent finalizar_venda calls.
C18_StockNeverNegative ==
    \A p \in ProdutoIds : produtos[p].estoque_atual >= 0

\* C18 witness: two sales of positive quantities, one with the product on two
\* lines, that read the same stock and sold together more than the store held
C18_Witness ==
    /\ last.op = "finalizar_venda"
    /\ last.outcome = "success"
    /\ Len(vendas) = 2
    /\ \A i \in 1..2 : \A k \in 1..Len(vendas[i].itens) :
          vendas[i].itens[k].quantidade > 0
    /\ \E i \in 1..2 : Len(vendas[i].itens) = 2
    /\ \E p \in ProdutoIds :
          QuantidadeVendida(vendas[1], p) + QuantidadeVendida(vendas[2], p)
             > EstoqueVenda

\* C19: every persisted sale has at least one item, and every persisted item
\* has quantidade > 0.
C19_PositiveQuantities ==
    \A i \in 1..Len(vendas) :
       /\ vendas[i].itens # <<>>
       /\ \A k \in 1..Len(vendas[i].itens) :
             vendas[i].itens[k].quantidade > 0

\* C20: every persisted sale has forma_pagamento in {dinheiro, cartao, pix},
\* and the totals by method shown on the closing page of an open session add
\* up to its total_geral.
C20_PaymentMethodsClosedSet ==
    /\ \A i \in 1..Len(vendas) :
          vendas[i].forma_pagamento \in FormasPagamento
    /\ \A u \in UsuarioIds :
          get_caixa_aberto(u) # 0
          => LET totais == TotaisFechamento(u) IN
             totais.dinheiro + totais.cartao + totais.pix = totais.total_geral

\* C21: no two persisted sales share a numero_venda, for any sequence or
\* interleaving of finalizar_venda calls.
C21_UniqueSaleNumbers ==
    \A i, j \in 1..Len(vendas) :
       i # j => vendas[i].numero_venda # vendas[j].numero_venda

\* C21 witness: two sales numbered in different seconds and inserted in the
\* same second
C21_Witness ==
    /\ Len(vendas) = 2
    /\ vendas[1].numero_venda # vendas[2].numero_venda
    /\ vendas[1].data_venda = vendas[2].data_venda
    /\ last.op = "finalizar_venda"
    /\ last.outcome = "success"

\* C28: with no product edits, for every product the initial estoque_atual
\* minus the persisted estoque_atual equals the units on all persisted sale
\* items of that product, for any interleaving of finalizar_venda calls.
C28_StockConservation ==
    \A p \in ProdutoIds :
       EstoqueVenda - produtos[p].estoque_atual
          = SumSeq([i \in 1..Len(vendas) |-> QuantidadeVendida(vendas[i], p)])

\* C29: every finalizar_venda call is answered either with success or with
\* the failure of one of its preconditions (open session, non-empty cart,
\* products found and in stock, cash covering the total): a call whose
\* preconditions hold commits, however close in time other sales are.
C29_ValidSaleCommits ==
    [][(last' # last /\ last'.op = "finalizar_venda")
         => last'.outcome \in {"success", "forbidden", "empty_cart",
                               "not_found", "insufficient_stock",
                               "payment"}]_vars

\* data_venda of sale k lies in the inclusive window of closed session i
NaJanela(k, i) ==
    /\ vendas[k].usuario_id = movimentos[i].usuario_id
    /\ movimentos[i].data_abertura <= vendas[k].data_venda
    /\ vendas[k].data_venda <= movimentos[i].data_fechamento

\* C30: for any two distinct closed sessions of one operator, no finalized
\* sale of that operator has data_venda in both inclusive windows
\* [data_abertura, data_fechamento].
C30_SaleInAtMostOneWindow ==
    \A i, j \in Fechados :
       (i # j /\ movimentos[i].usuario_id = movimentos[j].usuario_id)
       => \A k \in 1..Len(vendas) :
             vendas[k].status = "finalizada"
             => ~(NaJanela(k, i) /\ NaJanela(k, j))

\* C22: a finalizar_venda call whose cart holds a product with ativo = FALSE
\* is answered with the not-found outcome and is not admitted to commit, so
\* no sale and no stock change come from it.
C22_InactiveProductNotSold ==
    [][/\ (last' # last /\ last'.op = "finalizar_venda"
             /\ last'.outcome = "not_found")
            => /\ vendas' = vendas
               /\ produtos' = produtos
               /\ vendendo' = vendendo
       /\ \A r \in BagToSet(vendendo') :
             CopiesIn(r, vendendo') > CopiesIn(r, vendendo)
             => \A k \in 1..Len(r.itens) :
                   produtos[r.itens[k].produto_id].ativo]_vars

\* C27: a step that changes the preco_venda or the ativo flag of a product
\* leaves every persisted sale (its items' preco_unitario and subtotal, its
\* valor_total) as it was, and with them the expected balance of every closed
\* session.
C27_PriceSnapshot ==
    [][(\E p \in ProdutoIds :
           \/ produtos'[p].preco_venda # produtos[p].preco_venda
           \/ produtos'[p].ativo # produtos[p].ativo)
         => /\ vendas' = vendas
            /\ \A i \in Fechados :
                  SaldoEsperado(movimentos[i], movimentos[i].usuario_id)'
                     = SaldoEsperado(movimentos[i], movimentos[i].usuario_id)]_vars

\* C27 witness: the price was just edited, and a cash sale made at the former
\* price is counted in the expected balance of a closed session
C27_Witness ==
    /\ last.op = "produtos_editar"
    /\ last.outcome = "success"
    /\ \E i \in Fechados, k \in 1..Len(vendas) :
          /\ k \in VendasDinheiro(movimentos[i], movimentos[i].usuario_id)
          /\ \E n \in 1..Len(vendas[k].itens) :
                vendas[k].itens[n].preco_unitario
                   # produtos[vendas[k].itens[n].produto_id].preco_venda

\* C26: produtos_deletar and usuarios_deletar change nothing but the ativo
\* flag of the row; no step removes a product, user, sale, sale item or till
\* session row; so the product of every sale item and the operator of every
\* sale and session are rows of the store in every reachable state.
C26_SoftDelete ==
    /\ [](/\ \A i \in 1..Len(vendas) :
               /\ vendas[i].usuario_id \in DOMAIN usuarios
               /\ \A k \in 1..Len(vendas[i].itens) :
                     vendas[i].itens[k].produto_id \in DOMAIN produtos
          /\ \A i \in 1..Len(movimentos) :
                movimentos[i].usuario_id \in DOMAIN usuarios)
    /\ [][/\ DOMAIN produtos' = DOMAIN produtos
          /\ DOMAIN usuarios' = DOMAIN usuarios
          /\ Len(movimentos') >= Len(movimentos)
          /\ Len(vendas') >= Len(vendas)
          /\ \A i \in 1..Len(vendas) :
                Len(vendas'[i].itens) = Len(vendas[i].itens)
          /\ (last' # last /\ last'.op = "produtos_deletar")
                => /\ \A p \in DOMAIN produtos :
                         produtos'[p] = [produtos[p] EXCEPT
                                           !.ativo = produtos'[p].ativo]
                   /\ UNCHANGED <<usuarios, vendas, movimentos>>
          /\ (last' # last /\ last'.op = "usuarios_deletar")
                => /\ \A id \in DOMAIN usuarios :
                         usuarios'[id] = [usuarios[id] EXCEPT
                                            !.ativo = usuarios'[id].ativo]
                   /\ UNCHANGED <<produtos, vendas, movimentos>>]_vars

\* C26 witness: a user was just deactivated and a product is deactivated,
\* while the store holds a session and a sale of that user with an item of
\* that product
C26_Witness ==
    /\ last.op = "usuarios_deletar"
    /\ last.outcome = "success"
    /\ \E id \in DOMAIN usuarios, p \in DOMAIN produtos :
          /\ ~usuarios[id].ativo
          /\ ~produtos[p].ativo
          /\ \E i \in 1..Len(movimentos) : movimentos[i].usuario_id = id
          /\ \E i \in 1..Len(vendas) :
                /\ vendas[i].usuario_id = id
                /\ \E k \in 1..Len(vendas[i].itens) :
                      vendas[i].itens[k].produto_id = p

\* the till sessions of operator op
SessoesDe(op) == {i \in 1..Len(movimentos) : movimentos[i].usuario_id = op}

\* C23: the status list of the dashboard has one entry for every active user
\* with perfil admin or caixa and none for another; the entry of an operator
\* with no session has status 'nunca_aberto', variance 0 and no flag; any
\* other entry shows a session of the operator that none of their sessions
\* follows by data_abertura, with its status, and with its variance when it
\* is closed (0 and no flag when it is open).
C23_OversightList ==
    (last.op = "dashboard" /\ last.outcome = "ok")
    => /\ DOMAIN last.status_caixas
             = {u \in DOMAIN usuarios :
                   usuarios[u].ativo /\ usuarios[u].perfil \in {"admin", "caixa"}}
       /\ \A op \in DOMAIN last.status_caixas :
             LET e == last.status_caixas[op] IN
             IF SessoesDe(op) = {}
             THEN /\ e.status = "nunca_aberto"
                  /\ e.diferenca = 0
                  /\ ~e.mostrar_diferenca
             ELSE /\ e.movimento \in SessoesDe(op)
                  /\ \A j \in SessoesDe(op) :
                        movimentos[j].data_abertura
                           <= movimentos[e.movimento].data_abertura
                  /\ e.status = movimentos[e.movimento].status
                  /\ IF e.status = "fechado"
                     THEN /\ e.diferenca = movimentos[e.movimento].saldo_final
                                              - CashExpected(e.movimento)
                          /\ e.mostrar_diferenca <=> e.diferenca # 0
                     ELSE /\ e.diferenca = 0
                          /\ ~e.mostrar_diferenca

\* C23 witness: the list shows the admin, who never opened a till, and a
\* cashier whose later session, of two, is closed with a variance
C23_Witness ==
    /\ last.op = "dashboard"
    /\ last.outcome = "ok"
    /\ \E a, c \in DOMAIN last.status_caixas :
          /\ last.status_caixas[a].status = "nunca_aberto"
          /\ Cardinality(SessoesDe(c)) = 2
          /\ \E j \in SessoesDe(c) :
                movimentos[j].data_abertura
                   < movimentos[last.status_caixas[c].movimento].data_abertura
          /\ last.status_caixas[c].status = "fechado"
          /\ last.status_caixas[c].mostrar_diferenca

\* C24: the summary of a report counts, and sums the valor_total of, exactly
\* the sales with status 'finalizada' whose data_venda lies from 00:00:00 of
\* the start date to 23:59:59 of the end date, both included, and that match
\* the operator filter and the payment-method filter when these are set; with
\* no such sale the count and the total are 0.
C24_ReportSummary ==
    (last.op = "relatorios" /\ last.outcome = "ok")
    => LET r == last.sumario
           de == DataHora(r.data_inicio.dia, 0, 0)
           ate == DataHora(r.data_fim.dia, UltimoSegundo, 0)
           conta(k) ==
               /\ vendas[k].status = "finalizada"
               /\ Instante(de) <= Instante(vendas[k].data_venda)
               /\ Instante(vendas[k].data_venda) <= Instante(ate)
               /\ (r.caixa_id # 0 => vendas[k].usuario_id = r.caixa_id)
               /\ (r.forma_pgto # "todos"
                     => vendas[k].forma_pagamento = r.forma_pgto)
       IN /\ r.num_vendas = Cardinality({k \in 1..Len(vendas) : conta(k)})
          /\ last.total = SumSeq([k \in 1..Len(vendas) |->
                                    IF conta(k) THEN vendas[k].valor_total
                                    ELSE 0])

\* C25: with no date in the query the period of the report runs from
\* 00:00:00 six days before today to 23:59:59 of today; with a date string
\* that is not a valid date the report takes that same period for both ends.
C25_DefaultWindow ==
    (last.op = "relatorios" /\ last.outcome = "ok")
    => LET r == last.sumario IN
       (\/ (r.inicio.tipo = "vazia" /\ r.fim.tipo = "vazia")
        \/ r.inicio.tipo = "invalida"
        \/ r.fim.tipo = "invalida")
       => /\ r.data_inicio = DataHora(r.agora.dia - 6, 0, 0)
          /\ r.data_fim = DataHora(r.agora.dia, UltimoSegundo, 0)

====
